---- MODULE Spec2Model ----
(***************************************************************************)
(* Model of the differential test-collection harness:                      *)
(*   - parse_log_gradle      (swebench/harness/log_parsers/kotlin.py)      *)
(*   - TestResult, run_tests_in_container, collect_tests_for_instance,     *)
(*     get_instances_to_process, main with save_result_to_file and         *)
(*     collect_with_progress (swebench/collect/collect_tests.py)           *)
(*   - main stopped from outside and called again on the same output file  *)
(*                                                                         *)
(* A raw log is a sequence of lines.  Every line is abstracted to what the *)
(* parser can see in it: a sentinel of the structured payload, a test-case *)
(* record of the payload with its markers, a malformed fragment, the       *)
(* static-verification sentinel, or a free-text line matching one of the   *)
(* three regular-expression families with the identifier it captures.      *)
(***************************************************************************)
EXTENDS Integers, Sequences, FiniteSets, TLC

\* ------------------------------------------------------------------ bounds
MaxLogLen == 3

\* ------------------------------------------------------- test identifiers
TestIds == {"A", "B"}
static_verification == "static_verification"
AllIds == TestIds \cup {static_verification}

\* Python's string order on the identifiers of the model.
Ord(t) == CASE t = "A" -> 1 [] t = "B" -> 2 [] OTHER -> 3

\* TestStatus values (swebench.harness.constants)
PASSED == "PASSED"
FAILED == "FAILED"
SKIPPED == "SKIPPED"
ERROR == "ERROR"

\* ------------------------------------------------------------ log lines
XmlStart == [kind |-> "xml_start", id |-> "", marks |-> {}]
XmlEnd == [kind |-> "xml_end", id |-> "", marks |-> {}]
Malformed == [kind |-> "malformed", id |-> "", marks |-> {}]
StaticOk == [kind |-> "static_ok", id |-> "", marks |-> {}]

\* <testcase classname=.. name=..> with the child elements it carries
MarkerSets == {{}, {"failure"}, {"error"}, {"skipped"}, {"failure", "skipped"}}
TestCases == [kind : {"testcase"}, id : TestIds, marks : MarkerSets]

\* a line matched by one family of regular expressions, capturing id
TextLines == [kind : {"passed_re", "failed_re", "skipped_re"}, id : TestIds, marks : {{}}]

Lines == {XmlStart, XmlEnd, Malformed, StaticOk} \cup TestCases \cup TextLines

Logs == UNION {[1..n -> Lines] : n \in 0..MaxLogLen}

\* ------------------------------------------------------ parse_log_gradle
\* str.find: index of the first occurrence, -1 when there is none.
\* Positions are 0-based line indexes.
Find(log, line) ==
    LET FindFrom[i \in 1..(Len(log) + 1)] ==
            IF i > Len(log) THEN -1
            ELSE IF log[i] = line THEN i - 1
            ELSE FindFrom[i + 1]
    IN  FindFrom[1]

\* len("</testsuites>") in the unit of positions (one line)
EndSentinelLen == 1

xml_start(log) == Find(log, XmlStart)
xml_end(log) == Find(log, XmlEnd) + EndSentinelLen

\* log[xml_start:xml_end] (Python slice, 0-based, end exclusive)
Slice(log, from, to) ==
    IF to <= from THEN <<>>
    ELSE SubSeq(log, from + 1, IF to > Len(log) THEN Len(log) ELSE to)

\* ET.fromstring succeeds: the content is one document, the declaration at
\* its very start, the root element closed, nothing malformed inside.
\* Free text between the elements is character data.
WellFormed(xml) ==
    /\ Len(xml) >= 2
    /\ xml[1] = XmlStart
    /\ xml[Len(xml)] = XmlEnd
    /\ \A i \in 2..Len(xml) : xml[i] # Malformed /\ xml[i] # XmlStart
    /\ \A i \in 1..(Len(xml) - 1) : xml[i] # XmlEnd

\* The three sets the parser accumulates.
EmptySets == [passed |-> {}, failed |-> {}, skipped |-> {}]

\* variant: the skipped child is looked at first
ClassifyTestcase_skipped_first(sets, tc) ==
    IF "skipped" \in tc.marks
    THEN [sets EXCEPT !.skipped = @ \cup {tc.id}]
    ELSE IF "failure" \in tc.marks \/ "error" \in tc.marks
    THEN [sets EXCEPT !.failed = @ \cup {tc.id}]
    ELSE [sets EXCEPT !.passed = @ \cup {tc.id}]

\* one test-case record: failure/error, else skipped, else passed
ClassifyTestcase(sets, tc) ==
    IF "failure" \in tc.marks \/ "error" \in tc.marks
    THEN [sets EXCEPT !.failed = @ \cup {tc.id}]
    ELSE IF "skipped" \in tc.marks
    THEN [sets EXCEPT !.skipped = @ \cup {tc.id}]
    ELSE [sets EXCEPT !.passed = @ \cup {tc.id}]

\* the loop over the test-case records of the payload, in document order
XmlScan(xml) ==
    LET Scanned[i \in 0..Len(xml)] ==
            IF i = 0 THEN EmptySets
            ELSE IF xml[i].kind = "testcase" THEN ClassifyTestcase(Scanned[i - 1], xml[i])
            ELSE Scanned[i - 1]
    IN  Scanned[Len(xml)]

\* one line of the fallback scan: passed patterns, failed patterns, skipped
\* patterns, in that order
ScanLine(sets, line) ==
    LET afterPassed ==
            IF line.kind = "passed_re" /\ line.id \notin sets.failed
            THEN [sets EXCEPT !.passed = @ \cup {line.id}]
            ELSE sets
        afterFailed ==
            IF line.kind = "failed_re"
            THEN [afterPassed EXCEPT !.failed = @ \cup {line.id},
                                     !.passed = @ \ {line.id}]
            ELSE afterPassed
    IN  IF line.kind = "skipped_re"
        THEN [afterFailed EXCEPT !.skipped = @ \cup {line.id}]
        ELSE afterFailed

\* the loop over log.splitlines()
TextScan(log) ==
    LET Scanned[i \in 0..Len(log)] ==
            IF i = 0 THEN EmptySets ELSE ScanLine(Scanned[i - 1], log[i])
    IN  Scanned[Len(log)]

\* variant: the identifiers of the failed set get the status ERROR
ToStatusMap_failed_as_error(sets) ==
    [t \in sets.passed \cup sets.failed \cup sets.skipped |->
        IF t \in sets.skipped THEN SKIPPED
        ELSE IF t \in sets.failed THEN ERROR
        ELSE PASSED]

\* "Convert to test_status_map": three loops writing into one dict, the
\* later loop overwriting the earlier.
ToStatusMap(sets) ==
    [t \in sets.passed \cup sets.failed \cup sets.skipped |->
        IF t \in sets.skipped THEN SKIPPED
        ELSE IF t \in sets.failed THEN FAILED
        ELSE PASSED]

\* variant: the sentinel is looked for in the text after the payload only
HasStaticOk_after_payload(log) ==
    \E i \in 1..Len(log) : log[i] = StaticOk /\ i > xml_end(log)

\* "STATIC VERIFICATION SUCCESS" in log
HasStaticOk(log) == \E i \in 1..Len(log) : log[i] = StaticOk

WithStaticVerification(m, log) ==
    [t \in DOMAIN m \cup {static_verification} |->
        IF t = static_verification
        THEN (IF HasStaticOk(log) THEN PASSED ELSE FAILED)
        ELSE m[t]]

\* variant: a payload that cannot be parsed is used all the same
UsesXml_no_parse_error(log) ==
    /\ xml_start(log) # -1
    /\ xml_end(log) # -1

\* Which tier produced the result.
UsesXml(log) ==
    /\ xml_start(log) # -1
    /\ xml_end(log) # -1
    /\ WellFormed(Slice(log, xml_start(log), xml_end(log)))

FallbackParse(log) ==
    WithStaticVerification(ToStatusMap(TextScan(log)), log)

XmlParse(log) ==
    WithStaticVerification(
        ToStatusMap(XmlScan(Slice(log, xml_start(log), xml_end(log)))),
        log)

parse_log_gradle(log) ==
    IF UsesXml(log) THEN XmlParse(log) ELSE FallbackParse(log)

\* ------------------------------------------------------------ TestResult
EmptyTestResult == [passed |-> {}, failed |-> {}, skipped |-> {}, errors |-> {}]

\* variant: the SKIPPED branch is missing
from_status_map_no_skipped(status_map) ==
    [passed |-> {t \in DOMAIN status_map : status_map[t] = PASSED},
     failed |-> {t \in DOMAIN status_map : status_map[t] = FAILED},
     errors |-> {t \in DOMAIN status_map : status_map[t] = ERROR},
     skipped |-> {}]

from_status_map(status_map) ==
    [passed |-> {t \in DOMAIN status_map : status_map[t] = PASSED},
     failed |-> {t \in DOMAIN status_map : status_map[t] = FAILED},
     errors |-> {t \in DOMAIN status_map : status_map[t] = ERROR},
     skipped |-> {t \in DOMAIN status_map : status_map[t] = SKIPPED}]

all_tests(r) == r.passed \cup r.failed \cup r.skipped \cup r.errors

\* every status map parse_log_gradle returns for some test output
StatusMaps == {parse_log_gradle(l) : l \in Logs}

\* ------------------------------------------------------- label sequences
\* variant: list(s) in descending order
RECURSIVE sorted_descending(_)
sorted_descending(s) ==
    IF s = {} THEN <<>>
    ELSE LET greatest == CHOOSE t \in s : \A u \in s : Ord(u) <= Ord(t)
         IN  <<greatest>> \o sorted_descending(s \ {greatest})

\* sorted(list(s)): ascending in the order of the identifiers
RECURSIVE sorted(_)
sorted(s) ==
    IF s = {} THEN <<>>
    ELSE LET least == CHOOSE t \in s : \A u \in s : Ord(t) <= Ord(u)
         IN  <<least>> \o sorted(s \ {least})

\* variant: PASS_TO_PASS is not intersected with the patched run
ComputeLabels_baseline_only(before, after) ==
    LET before_failing == before.failed \cup before.errors
    IN  <<sorted(before_failing \cap after.passed), sorted(before.passed)>>

\* variant: every test passing after the patch that did not pass before
\* counts as fixed
ComputeLabels_not_passed_before(before, after) ==
    <<sorted(after.passed \ before.passed), sorted(before.passed \cap after.passed)>>

\* lines 270-276
ComputeLabels(before, after) ==
    LET before_failing == before.failed \cup before.errors
    IN  <<sorted(before_failing \cap after.passed),
          sorted(before.passed \cap after.passed)>>

EmptyLabels == <<<<>>, <<>>>>

\* variant: the baseline result is not tested
BeforeIsNone_never(r) == FALSE

\* `if before_result is None` (line 243) and what is then returned (line 245)
BeforeIsNone(r) == r = <<>>
OnBeforeNone == EmptyLabels

\* variant: the baseline verdicts are returned when the patched run failed
OnAfterNone_partial(before) == <<<<>>, sorted(before.passed)>>

\* `if after_result is None` (line 266) and what is then returned (line 268)
AfterIsNone(r) == r = <<>>
OnAfterNone(before) == EmptyLabels

\* the two except clauses (lines 289-298)
OnException == EmptyLabels

\* ------------------------------------------------------ patch application
GIT_APPLY_CMDS ==
    <<"git apply --verbose",
      "git apply --verbose --reject",
      "patch --batch --fuzz=5 -p1 -i">>

ExitCodes == {0, 1}

\* instance['patch']: empty, blank, or a diff
Patches == {"", "  ", "diff"}
strip(s) == IF s = "  " THEN "" ELSE s

\* variant: the patch is passed to the baseline call too
PatchContentFor_always(ph, p) == <<p>>

\* the patch_content argument of the two calls (lines 239-241, 262-264);
\* <<>> is None
PatchContentFor(ph, p) == IF ph = "before" THEN <<>> ELSE <<p>>

\* variant: the text is not stripped before it is tested
HasPatch_no_strip(patch_content) ==
    /\ patch_content # <<>>
    /\ patch_content[1] # ""

\* `if patch_content and patch_content.strip()` (line 123)
HasPatch(patch_content) ==
    /\ patch_content # <<>>
    /\ patch_content[1] # ""
    /\ strip(patch_content[1]) # ""

\* variant: no break after a successful command
ApplyStep_no_break(idx, exit_code) ==
    IF idx < Len(GIT_APPLY_CMDS)
    THEN [next |-> "apply", idx |-> idx + 1, applied |-> exit_code = 0]
    ELSE IF exit_code = 0
    THEN [next |-> "copy_eval", idx |-> idx, applied |-> TRUE]
    ELSE [next |-> "patch_failed", idx |-> idx, applied |-> FALSE]

\* variant: the last command of the list is never tried
ApplyStep_off_by_one(idx, exit_code) ==
    IF exit_code = 0
    THEN [next |-> "copy_eval", idx |-> idx, applied |-> TRUE]
    ELSE IF idx < Len(GIT_APPLY_CMDS) - 1
    THEN [next |-> "apply", idx |-> idx + 1, applied |-> FALSE]
    ELSE [next |-> "patch_failed", idx |-> idx, applied |-> FALSE]

\* variant: the test of applied_patch (line 147) is missing
ApplyStep_ignore_failure(idx, exit_code) ==
    IF exit_code = 0
    THEN [next |-> "copy_eval", idx |-> idx, applied |-> TRUE]
    ELSE IF idx < Len(GIT_APPLY_CMDS)
    THEN [next |-> "apply", idx |-> idx + 1, applied |-> FALSE]
    ELSE [next |-> "copy_eval", idx |-> idx, applied |-> FALSE]

\* one turn of the loop over GIT_APPLY_CMDS (lines 134-149): break on exit
\* code 0, else the next command, else (none left) the not-applied return
ApplyStep(idx, exit_code) ==
    IF exit_code = 0
    THEN [next |-> "copy_eval", idx |-> idx, applied |-> TRUE]
    ELSE IF idx < Len(GIT_APPLY_CMDS)
    THEN [next |-> "apply", idx |-> idx + 1, applied |-> FALSE]
    ELSE [next |-> "patch_failed", idx |-> idx, applied |-> FALSE]

\* the timeout argument (line 106), in the time unit of `clock`
timeout == 2

\* the model stops counting one unit after the timeout
MaxWait == timeout + 1

\* container.exec_run (lines 135-139) returns when the command exits: the
\* worker goes on waiting whatever the time elapsed
exec_run_waits(c) == TRUE

\* exec_run_with_timeout (line 159): the worker waits for the command no
\* longer than the timeout
exec_run_with_timeout_waits(c) == c < timeout

\* --------------------------------------------------------------- sandboxes
NoContainer == 0
Handles == {1, 2}

\* build_container: a container that did not exist before
NewHandle(sb) ==
    CHOOSE h \in Handles : sb[h] = "absent" /\ \A g \in Handles : g < h => sb[g] # "absent"

\* cleanup_container: stop and remove; nothing to do for None or for a
\* container that is already gone
cleanup_container(sb, c) ==
    IF c = NoContainer THEN sb ELSE [sb EXCEPT ![c] = "removed"]

Event(op, h, ph, cmd, code, outcome) ==
    [op |-> op, h |-> h, phase |-> ph, cmd |-> cmd, code |-> code, outcome |-> outcome]

NoAbort == [at |-> "", why |-> ""]

\* ------------------------------------------------- the output collection
\* the instances of the dataset file, in the order of the file
InstanceIds == <<"i1", "i2", "i3">>
DatasetIds == {InstanceIds[k] : k \in 1..Len(InstanceIds)}

\* Python's string order on the instance identifiers
IdOrd(i) == CHOOSE k \in 1..Len(InstanceIds) : InstanceIds[k] = i

\* an instance dict: its identifier, its other fields taken as a whole, and
\* the pair FAIL_TO_PASS, PASS_TO_PASS (<<>> when the keys are absent)
Record(id, data, lbl) == [instance_id |-> id, data |-> data, labels |-> lbl]
DatasetEntry(i) == Record(i, "dataset", <<>>)

\* what an evaluation can return, and the labels of an earlier run
LabelResults == {EmptyLabels, <<<<"A">>, <<"B">>>>}
EarlierLabels == <<<<"B">>, <<>>>>

\* collect_tests_for_instance called by collect_with_progress (line 488): it
\* returns a pair, or raises (<<>>)
Raises == <<>>
Outcomes == LabelResults \cup {Raises}

\* the output file: absent, a JSON list of instance dicts, a text that is
\* not JSON, or a file opened for writing whose content is not written yet
AbsentFile == [kind |-> "absent", recs |-> <<>>]
CorruptFile == [kind |-> "corrupt", recs |-> <<>>]
OpenedFile == [kind |-> "opened", recs |-> <<>>]
ValidFile(recs) == [kind |-> "valid", recs |-> recs]

\* Path(output_path).exists() and the success of json.load
Exists(f) == f.kind # "absent"
Loads(f) == f.kind = "valid"

\* {inst['instance_id']: inst for inst in data}: the last dict of an
\* identifier is kept
InstanceMap(recs) ==
    [i \in {recs[k].instance_id : k \in 1..Len(recs)} |->
        recs[CHOOSE k \in 1..Len(recs) :
                /\ recs[k].instance_id = i
                /\ \A j \in (k + 1)..Len(recs) : recs[j].instance_id # i]]

\* sorted(instance_map.values(), key=lambda x: x['instance_id'])
SortedValues(map) ==
    LET ids == DOMAIN map
        Seqs == {q \in [1..Cardinality(ids) -> ids] :
                    \A a, b \in 1..Cardinality(ids) : a < b => IdOrd(q[a]) < IdOrd(q[b])}
        order == CHOOSE q \in Seqs : TRUE
    IN  [k \in 1..Cardinality(ids) |-> map[order[k]]]

\* ---------------------------------------------------------------- main
\* --max_workers
MaxWorkers == 2

\* variant: the output file is not looked at
completed_ids_none(f) == {}

\* variant: a dict with two empty label lists does not count as completed
completed_ids_nonempty(f) ==
    IF Exists(f) /\ Loads(f)
    THEN {f.recs[k].instance_id :
            k \in {n \in 1..Len(f.recs) : f.recs[n].labels \notin {<<>>, EmptyLabels}}}
    ELSE {}

\* get_instances_to_process (lines 322-352): the instances asked for that
\* have no dict with both label keys in the output file; a file that
\* cannot be loaded counts for nothing
completed_ids(f) ==
    IF Exists(f) /\ Loads(f)
    THEN {f.recs[k].instance_id : k \in {n \in 1..Len(f.recs) : f.recs[n].labels # <<>>}}
    ELSE {}

get_instances_to_process(ds, f, ids) ==
    LET ToProcess(i) ==
            /\ ids # {} => i \in ids
            /\ i \notin completed_ids(f)
    IN  SelectSeq(ds, ToProcess)

\* lines 409-418: existing_results, the dicts of the file by identifier
LoadExisting(f) == IF Exists(f) /\ Loads(f) THEN InstanceMap(f.recs) ELSE InstanceMap(<<>>)

\* save_result_to_file, lines 445-449: json.load raises
SaveFails(f) == Exists(f) /\ ~Loads(f)

\* variant: only the new dict is written back
MergeResult_only_new(f, id, lbl) == <<[DatasetEntry(id) EXCEPT !.labels = lbl]>>

\* variant: the new dict is added at the end of the list that was read
MergeResult_appended(f, id, lbl) ==
    Append(IF Exists(f) THEN f.recs ELSE <<>>, [DatasetEntry(id) EXCEPT !.labels = lbl])

\* variant: the dict of the instance is always taken from the dataset
MergeResult_from_dataset(f, id, lbl) ==
    LET current_data == IF Exists(f) THEN f.recs ELSE <<>>
        instance_map == InstanceMap(current_data)
        updated == [i \in DOMAIN instance_map \cup {id} |->
                       IF i = id THEN [DatasetEntry(id) EXCEPT !.labels = lbl]
                       ELSE instance_map[i]]
    IN  SortedValues(updated)

\* variant: every instance that has no dict yet gets one with empty labels
MergeResult_placeholders(f, id, lbl) ==
    LET current_data == IF Exists(f) THEN f.recs ELSE <<>>
        instance_map == InstanceMap(current_data)
        inst == IF id \in DOMAIN instance_map THEN instance_map[id] ELSE DatasetEntry(id)
        updated == [i \in DatasetIds |->
                       IF i = id THEN [inst EXCEPT !.labels = lbl]
                       ELSE IF i \in DOMAIN instance_map THEN instance_map[i]
                       ELSE [DatasetEntry(i) EXCEPT !.labels = EmptyLabels]]
    IN  SortedValues(updated)

\* save_result_to_file, lines 445-474: updated_data
MergeResult(f, id, lbl) ==
    LET current_data == IF Exists(f) THEN f.recs ELSE <<>>
        instance_map == InstanceMap(current_data)
        inst == IF id \in DOMAIN instance_map THEN instance_map[id] ELSE DatasetEntry(id)
        updated == [i \in DOMAIN instance_map \cup {id} |->
                       IF i = id THEN [inst EXCEPT !.labels = lbl] ELSE instance_map[i]]
    IN  SortedValues(updated)

\* variant: the results of the run are not merged in
FinalMerge_without_results(ds, existing, res) ==
    LET all_instance_ids == {ds[k] : k \in 1..Len(ds)} \cup DOMAIN existing
        Merged(i) == IF i \in DOMAIN existing THEN existing[i] ELSE DatasetEntry(i)
    IN  SortedValues([i \in all_instance_ids |-> Merged(i)])

\* variant: the dict of a processed instance is taken from the dataset
\* before the snapshot is looked at
FinalMerge_dataset_first(ds, existing, res) ==
    LET all_instance_ids == {ds[k] : k \in 1..Len(ds)} \cup DOMAIN existing
        Merged(i) ==
            LET inst == IF i \in {ds[k] : k \in 1..Len(ds)} THEN DatasetEntry(i)
                        ELSE existing[i]
            IN  IF i \in DOMAIN res THEN [inst EXCEPT !.labels = res[i]] ELSE inst
    IN  SortedValues([i \in all_instance_ids |-> Merged(i)])

\* lines 511-531: updated_dataset
FinalMerge(ds, existing, res) ==
    LET all_instance_ids == {ds[k] : k \in 1..Len(ds)} \cup DOMAIN existing
        Merged(i) ==
            LET inst == IF i \in DOMAIN existing THEN existing[i] ELSE DatasetEntry(i)
            IN  IF i \in DOMAIN res THEN [inst EXCEPT !.labels = res[i]] ELSE inst
    IN  SortedValues([i \in all_instance_ids |-> Merged(i)])

\* lines 546-549: inst['FAIL_TO_PASS'] of a dict without the key
SummaryFails(data) == \E k \in 1..Len(data) : data[k].labels = <<>>

\* a list that is not in the order of the identifiers
UnsortedFile ==
    ValidFile(<<Record("i3", "earlier", EarlierLabels), Record("i1", "earlier", <<>>)>>)

\* the output file a run can find: none, one that is not JSON, a list that
\* is not sorted, or a sorted list with, for each instance, no dict, a dict
\* without labels or a dict with the labels of an earlier run
InitialFiles ==
    {AbsentFile, CorruptFile, UnsortedFile} \cup
    {ValidFile(SortedValues(
        [i \in {j \in DatasetIds : c[j] # "none"} |->
            Record(i, "earlier", IF c[i] = "labeled" THEN EarlierLabels ELSE <<>>)])) :
        c \in [DatasetIds -> {"none", "unlabeled", "labeled"}]}

\* --instance_ids: not given, or some of the instances
InstanceIdOptions == {{}, {"i1", "i2"}}

VARIABLES
    log, parsed, status_map, result,      \* the parser run on one log
    patch,                                \* instance['patch']
    outputs,                              \* what parsing a test output can give
    pc, phase, rpc,                       \* position in collect_tests_for_instance
                                          \* and in run_tests_in_container
    container, sandbox,                   \* the local variable, the containers
    cmd_idx, applied_patch,               \* the loop over GIT_APPLY_CMDS
    clock,                                \* how long the worker has waited for
                                          \* the command that is running
    before_result, after_result,          \* <<>> is None
    ret,                                  \* the returned pair, <<>> until then
    labels,                               \* results[instance_id] of the worker
    abort, events                         \* why the run ended early; history

VARIABLES
    file,                                 \* the output file
    instance_ids,                         \* --instance_ids
    dataset,                              \* main's list, filtered at line 382
    existing_results, results,            \* the two dicts of main
    lock,                                 \* the holder of `lock`, "" when free
    mpc,                                  \* position of main
    tpc,                                  \* position of each call of
                                          \* collect_with_progress
    evaluated,                            \* the pair it holds, <<>> until then
    raised,                               \* the instances whose evaluation raised
    updated_data,                         \* of each call of save_result_to_file
    updated_dataset                       \* of main

VARIABLES
    outcome,                              \* what evaluating each instance can give
    first_file,                           \* the output file the first run found
    in_flight                             \* the instances that were being evaluated
                                          \* when the last run was stopped

pvars == <<log, parsed, status_map, result>>
rvars == <<outcome, first_file, in_flight>>
mvars == <<file, instance_ids, dataset, existing_results, results, lock, mpc, tpc,
           evaluated, raised, updated_data, updated_dataset, rvars>>
evars == <<patch, outputs, pc, phase, rpc, container, sandbox, cmd_idx, applied_patch,
           clock, before_result, after_result, ret, labels, abort, events>>
vars == <<pvars, evars, mvars>>

ParserIdle ==
    /\ log = <<>>
    /\ parsed = FALSE
    /\ status_map = <<>>
    /\ result = EmptyTestResult

EvaluatorIdle(p, maps) ==
    /\ patch = p
    /\ outputs = maps
    /\ pc = "setup"
    /\ phase = "before"
    /\ rpc = "idle"
    /\ container = NoContainer
    /\ sandbox = [h \in Handles |-> "absent"]
    /\ cmd_idx = 1
    /\ applied_patch = FALSE
    /\ clock = 0
    /\ before_result = <<>>
    /\ after_result = <<>>
    /\ ret = <<>>
    /\ labels = <<>>
    /\ abort = NoAbort
    /\ events = <<>>

MainIdle ==
    /\ file = AbsentFile
    /\ instance_ids = {}
    /\ dataset = <<>>
    /\ existing_results = InstanceMap(<<>>)
    /\ results = InstanceMap(<<>>)
    /\ lock = ""
    /\ mpc = "idle"
    /\ tpc = [i \in DatasetIds |-> "idle"]
    /\ evaluated = [i \in DatasetIds |-> <<>>]
    /\ raised = {}
    /\ updated_data = [i \in DatasetIds |-> <<>>]
    /\ updated_dataset = <<>>
    /\ outcome = [i \in DatasetIds |-> {}]
    /\ first_file = AbsentFile
    /\ in_flight = {}

\* ================================================= parser specification
ParseInit ==
    /\ log \in Logs
    /\ parsed = FALSE
    /\ status_map = <<>>
    /\ result = EmptyTestResult
    /\ EvaluatorIdle("", {})
    /\ MainIdle

\* run_tests_in_container, lines 170-177: parse the output, convert it
ParseLog ==
    /\ ~parsed
    /\ parsed' = TRUE
    /\ status_map' = parse_log_gradle(log)
    /\ result' = IF DOMAIN parse_log_gradle(log) = {}
                 THEN EmptyTestResult
                 ELSE from_status_map(parse_log_gradle(log))
    /\ UNCHANGED <<log, evars, mvars>>

ParseNext == ParseLog

ParseSpec == ParseInit /\ [][ParseNext]_vars

\* ============================== collect_tests_for_instance, one instance
Init ==
    /\ ParserIdle
    /\ \E p \in Patches : EvaluatorIdle(p, StatusMaps)
    /\ MainIdle

Log(e) == events' = Append(events, e)

\* an except clause of collect_tests_for_instance takes over: return [], []
Raise(op, cmd) ==
    /\ ret' = OnException
    /\ abort' = [at |-> pc, why |-> "raised"]
    /\ pc' = "finally"
    /\ rpc' = "idle"
    /\ Log(Event(op, container, phase, cmd, -1, "raised"))

\* lines 212-225: make_test_spec, the log directory, the logger; nothing
\* here is inside the try statement
Setup ==
    /\ pc = "setup"
    /\ \/ /\ pc' = "build"
          /\ UNCHANGED abort
       \/ /\ pc' = "raised"
          /\ abort' = [at |-> "setup", why |-> "raised"]
    /\ UNCHANGED <<mvars, pvars, patch, outputs, clock, phase, rpc, container, sandbox, cmd_idx,
                   applied_patch, before_result, after_result, ret, labels, events>>

\* lines 231-233 and 254-256: container = build_container(...)
BuildContainer ==
    /\ pc = "build"
    /\ \/ /\ container' = NewHandle(sandbox)
          /\ sandbox' = [sandbox EXCEPT ![NewHandle(sandbox)] = "created"]
          /\ Log(Event("build", NewHandle(sandbox), phase, "", -1, "ok"))
          /\ pc' = "start"
          /\ UNCHANGED <<ret, abort, rpc>>
       \/ /\ Raise("build", "")
          /\ UNCHANGED <<container, sandbox>>
    /\ UNCHANGED <<mvars, pvars, patch, outputs, clock, phase, cmd_idx, applied_patch, before_result,
                   after_result, labels>>

\* lines 234 and 257: container.start(), then the call of
\* run_tests_in_container up to its test of patch_content (line 123)
StartContainer ==
    /\ pc = "start"
    /\ \/ /\ sandbox' = [sandbox EXCEPT ![container] = "running"]
          /\ Log(Event("start", container, phase, "", -1, "ok"))
          /\ pc' = "run"
          /\ rpc' = IF HasPatch(PatchContentFor(phase, patch))
                    THEN "copy_patch" ELSE "copy_eval"
          /\ UNCHANGED <<ret, abort>>
       \/ /\ Raise("start", "")
          /\ UNCHANGED sandbox
    /\ UNCHANGED <<mvars, pvars, patch, outputs, clock, phase, container, cmd_idx, applied_patch,
                   before_result, after_result, labels>>

\* run_tests_in_container returns r (<<>> is None) to lines 239-245 or
\* 262-268 of collect_tests_for_instance
RunReturns(r, why) ==
    /\ rpc' = "idle"
    /\ IF phase = "before"
       THEN IF BeforeIsNone(r)
            THEN /\ ret' = OnBeforeNone
                 /\ abort' = [at |-> "run_before", why |-> why]
                 /\ pc' = "finally"
                 /\ UNCHANGED <<before_result, after_result>>
            ELSE /\ before_result' = r
                 /\ pc' = "stop"
                 /\ UNCHANGED <<ret, abort, after_result>>
       ELSE IF AfterIsNone(r)
            THEN /\ ret' = OnAfterNone(before_result[1])
                 /\ abort' = [at |-> "run_after", why |-> why]
                 /\ pc' = "finally"
                 /\ UNCHANGED <<before_result, after_result>>
            ELSE /\ after_result' = r
                 /\ pc' = "compute"
                 /\ UNCHANGED <<ret, abort, before_result>>

\* lines 124-130: the patch is written to a file and copied in
CopyPatch ==
    /\ pc = "run" /\ rpc = "copy_patch"
    /\ \/ /\ Log(Event("copy_patch", container, phase, "", -1, "ok"))
          /\ rpc' = "apply"
          /\ cmd_idx' = 1
          /\ applied_patch' = FALSE
          /\ UNCHANGED <<pc, ret, abort, before_result, after_result>>
       \/ /\ Log(Event("copy_patch", container, phase, "", -1, "raised"))
          /\ RunReturns(<<>>, "exception")
          /\ UNCHANGED <<cmd_idx, applied_patch>>
    /\ UNCHANGED <<mvars, pvars, patch, outputs, clock, phase, container, sandbox, labels>>

\* lines 134-149: one command of GIT_APPLY_CMDS is executed
ApplyPatch ==
    /\ pc = "run" /\ rpc = "apply"
    /\ \/ \E code \in ExitCodes :
            LET step == ApplyStep(cmd_idx, code)
            IN  /\ Log(Event("apply", container, phase, GIT_APPLY_CMDS[cmd_idx], code,
                             IF code = 0 THEN "ok" ELSE "failed"))
                /\ cmd_idx' = step.idx
                /\ applied_patch' = step.applied
                /\ IF step.next = "patch_failed"
                   THEN RunReturns(<<>>, "patch_failed")
                   ELSE /\ rpc' = step.next
                        /\ UNCHANGED <<pc, ret, abort, before_result, after_result>>
       \/ /\ Log(Event("apply", container, phase, GIT_APPLY_CMDS[cmd_idx], -1, "raised"))
          /\ RunReturns(<<>>, "exception")
          /\ UNCHANGED <<cmd_idx, applied_patch>>
    /\ clock' = 0
    /\ UNCHANGED <<mvars, pvars, patch, outputs, phase, container, sandbox, labels>>

\* a patch command (lines 135-139) or the eval script (line 159) is still
\* running: the worker waits
Wait ==
    /\ pc = "run"
    /\ \/ rpc = "apply" /\ exec_run_waits(clock)
       \/ rpc = "exec" /\ exec_run_with_timeout_waits(clock)
    /\ clock < MaxWait
    /\ clock' = clock + 1
    /\ UNCHANGED <<mvars, pvars, patch, outputs, pc, phase, rpc, container, sandbox, cmd_idx,
                   applied_patch, before_result, after_result, ret, labels, abort, events>>

\* lines 152-155: the eval script is written to a file and copied in
CopyEval ==
    /\ pc = "run" /\ rpc = "copy_eval"
    /\ \/ /\ Log(Event("copy_eval", container, phase, "", -1, "ok"))
          /\ rpc' = "exec"
          /\ UNCHANGED <<pc, ret, abort, before_result, after_result>>
       \/ /\ Log(Event("copy_eval", container, phase, "", -1, "raised"))
          /\ RunReturns(<<>>, "exception")
    /\ UNCHANGED <<mvars, pvars, patch, outputs, clock, phase, container, sandbox, cmd_idx, applied_patch,
                   labels>>

\* lines 159-183: the eval script runs under the timeout, its output is
\* parsed and converted
RunTests ==
    /\ pc = "run" /\ rpc = "exec"
    /\ \/ \E m \in outputs :
            /\ Log(Event("run_tests", container, phase, "/bin/bash /eval.sh", -1, "ok"))
            /\ RunReturns(<<IF DOMAIN m = {} THEN EmptyTestResult
                             ELSE from_status_map(m)>>, "")
       \/ /\ ~exec_run_with_timeout_waits(clock)
          /\ Log(Event("run_tests", container, phase, "/bin/bash /eval.sh", -1, "timeout"))
          /\ RunReturns(<<>>, "timeout")
       \/ /\ Log(Event("run_tests", container, phase, "/bin/bash /eval.sh", -1, "raised"))
          /\ RunReturns(<<>>, "exception")
    /\ clock' = 0
    /\ UNCHANGED <<mvars, pvars, patch, outputs, phase, container, sandbox, cmd_idx, applied_patch,
                   labels>>

\* variant: the baseline container is kept for the after-patch run
StopContainer_reuse ==
    /\ pc = "stop"
    /\ pc' = "run"
    /\ phase' = "after"
    /\ rpc' = IF HasPatch(PatchContentFor("after", patch)) THEN "copy_patch" ELSE "copy_eval"
    /\ UNCHANGED <<mvars, pvars, patch, outputs, clock, container, sandbox, cmd_idx, applied_patch,
                   before_result, after_result, ret, labels, abort, events>>

\* line 249: container.stop()
StopContainer ==
    /\ pc = "stop"
    /\ \/ /\ sandbox' = [sandbox EXCEPT ![container] = "stopped"]
          /\ Log(Event("stop", container, phase, "", -1, "ok"))
          /\ pc' = "remove"
          /\ UNCHANGED <<ret, abort, rpc>>
       \/ /\ Raise("stop", "")
          /\ UNCHANGED sandbox
    /\ UNCHANGED <<mvars, pvars, patch, outputs, clock, phase, container, cmd_idx, applied_patch,
                   before_result, after_result, labels>>

\* line 250: container.remove(v=True); the after-patch phase begins
RemoveContainer ==
    /\ pc = "remove"
    /\ \/ /\ sandbox' = [sandbox EXCEPT ![container] = "removed"]
          /\ Log(Event("remove", container, phase, "", -1, "ok"))
          /\ pc' = "build"
          /\ phase' = "after"
          /\ UNCHANGED <<ret, abort, rpc>>
       \/ /\ Raise("remove", "")
          /\ UNCHANGED <<sandbox, phase>>
    /\ UNCHANGED <<mvars, pvars, patch, outputs, clock, container, cmd_idx, applied_patch,
                   before_result, after_result, labels>>

\* lines 270-287
Compute ==
    /\ pc = "compute"
    /\ ret' = ComputeLabels(before_result[1], after_result[1])
    /\ pc' = "finally"
    /\ UNCHANGED <<mvars, pvars, patch, outputs, clock, phase, rpc, container, sandbox, cmd_idx,
                   applied_patch, before_result, after_result, labels, abort, events>>

\* variant: the cleanup is the last statement of the try body
Finally_end_of_try ==
    /\ pc = "finally"
    /\ sandbox' = IF abort = NoAbort THEN cleanup_container(sandbox, container) ELSE sandbox
    /\ Log(Event("cleanup", container, phase, "", -1, "ok"))
    /\ pc' = "done"
    /\ UNCHANGED <<mvars, pvars, patch, outputs, clock, phase, rpc, container, cmd_idx, applied_patch,
                   before_result, after_result, ret, labels, abort>>

\* lines 299-302: the finally clause
Finally ==
    /\ pc = "finally"
    /\ sandbox' = cleanup_container(sandbox, container)
    /\ Log(Event("cleanup", container, phase, "", -1, "ok"))
    /\ pc' = "done"
    /\ UNCHANGED <<mvars, pvars, patch, outputs, clock, phase, rpc, container, cmd_idx, applied_patch,
                   before_result, after_result, ret, labels, abort>>

\* collect_with_progress, lines 489-491: the returned pair is the result
RecordResult ==
    /\ pc = "done"
    /\ labels' = ret
    /\ pc' = "recorded"
    /\ UNCHANGED <<mvars, pvars, patch, outputs, clock, phase, rpc, container, sandbox, cmd_idx,
                   applied_patch, before_result, after_result, ret, abort, events>>

\* collect_with_progress, lines 496-501: an exception that left
\* collect_tests_for_instance is caught, the result is ([], [])
RecordException ==
    /\ pc = "raised"
    /\ labels' = EmptyLabels
    /\ pc' = "recorded"
    /\ UNCHANGED <<mvars, pvars, patch, outputs, clock, phase, rpc, container, sandbox, cmd_idx,
                   applied_patch, before_result, after_result, ret, abort, events>>

Next ==
    \/ Setup
    \/ BuildContainer
    \/ StartContainer
    \/ CopyPatch
    \/ ApplyPatch
    \/ Wait
    \/ CopyEval
    \/ RunTests
    \/ StopContainer
    \/ RemoveContainer
    \/ Compute
    \/ Finally
    \/ RecordResult
    \/ RecordException

Spec == Init /\ [][Next]_vars

\* ==================================================== main, one run
MainInit ==
    /\ ParserIdle
    /\ EvaluatorIdle("", {})
    /\ file \in InitialFiles
    /\ instance_ids \in InstanceIdOptions
    /\ dataset = InstanceIds
    /\ existing_results = InstanceMap(<<>>)
    /\ results = InstanceMap(<<>>)
    /\ lock = ""
    /\ mpc = "filter"
    /\ tpc = [i \in DatasetIds |-> "idle"]
    /\ evaluated = [i \in DatasetIds |-> <<>>]
    /\ raised = {}
    /\ updated_data = [i \in DatasetIds |-> <<>>]
    /\ updated_dataset = <<>>
    /\ outcome = [i \in DatasetIds |-> Outcomes]
    /\ first_file = file
    /\ in_flight = {}

Payloads == {dataset[k] : k \in 1..Len(dataset)}

\* lines 382-386: the dataset is filtered; nothing to do ends the run
FilterDataset ==
    /\ mpc = "filter"
    /\ dataset' = get_instances_to_process(dataset, file, instance_ids)
    /\ mpc' = IF dataset' = <<>> THEN "done" ELSE "build_env"
    /\ UNCHANGED <<pvars, evars, rvars, file, instance_ids, existing_results, results, lock, tpc,
                   evaluated, raised, updated_data, updated_dataset>>

\* lines 389-402: docker.from_env() and build_env_images, outside any try
BuildEnvImages ==
    /\ mpc = "build_env"
    /\ mpc' \in {"snapshot", "crashed"}
    /\ UNCHANGED <<pvars, evars, rvars, file, instance_ids, dataset, existing_results, results, lock,
                   tpc, evaluated, raised, updated_data, updated_dataset>>

\* lines 409-436: existing_results is loaded, the payloads are prepared
LoadExistingResults ==
    /\ mpc = "snapshot"
    /\ existing_results' = LoadExisting(file)
    /\ tpc' = [i \in DatasetIds |-> IF i \in Payloads THEN "queued" ELSE "idle"]
    /\ mpc' = "pool"
    /\ UNCHANGED <<pvars, evars, rvars, file, instance_ids, dataset, results, lock, evaluated,
                   raised, updated_data, updated_dataset>>

\* run_threadpool (line 507): at most max_workers calls are in progress,
\* the payloads are taken in their order
InProgress == {i \in DatasetIds : tpc[i] \notin {"idle", "queued", "finished"}}

StartWorker(i) ==
    /\ mpc = "pool"
    /\ tpc[i] = "queued"
    /\ Cardinality(InProgress) < MaxWorkers
    /\ \A k \in 1..Len(dataset) : IdOrd(dataset[k]) < IdOrd(i) => tpc[dataset[k]] # "queued"
    /\ tpc' = [tpc EXCEPT ![i] = "evaluating"]
    /\ UNCHANGED <<pvars, evars, rvars, file, instance_ids, dataset, existing_results, results, lock,
                   mpc, evaluated, raised, updated_data, updated_dataset>>

\* variant: an exception of collect_tests_for_instance is not caught and
\* ends the run
Evaluate_uncaught(i) ==
    /\ mpc = "pool"
    /\ tpc[i] = "evaluating"
    /\ \/ /\ \E r \in outcome[i] \ {Raises} : evaluated' = [evaluated EXCEPT ![i] = <<r>>]
          /\ tpc' = [tpc EXCEPT ![i] = "waiting"]
          /\ UNCHANGED <<raised, mpc>>
       \/ /\ Raises \in outcome[i]
          /\ raised' = raised \cup {i}
          /\ mpc' = "crashed"
          /\ UNCHANGED <<evaluated, tpc>>
    /\ UNCHANGED <<pvars, evars, rvars, file, instance_ids, dataset, existing_results, results,
                   lock, updated_data, updated_dataset>>

\* lines 488-489 and 496-499: collect_tests_for_instance returns a pair, or
\* raises and the pair is ([], [])
Evaluate(i) ==
    /\ mpc = "pool"
    /\ tpc[i] = "evaluating"
    /\ \/ /\ \E r \in outcome[i] \ {Raises} : evaluated' = [evaluated EXCEPT ![i] = <<r>>]
          /\ UNCHANGED raised
       \/ /\ Raises \in outcome[i]
          /\ evaluated' = [evaluated EXCEPT ![i] = <<EmptyLabels>>]
          /\ raised' = raised \cup {i}
    /\ tpc' = [tpc EXCEPT ![i] = "waiting"]
    /\ UNCHANGED <<pvars, evars, rvars, file, instance_ids, dataset, existing_results, results, lock,
                   mpc, updated_data, updated_dataset>>

\* variant: the pair is stored and the file saved without waiting for the
\* lock
AcquireLock_unguarded(i) ==
    /\ mpc = "pool"
    /\ tpc[i] = "waiting"
    /\ lock' = i
    /\ results' = [j \in DOMAIN results \cup {i} |->
                      IF j = i THEN evaluated[i][1] ELSE results[j]]
    /\ tpc' = [tpc EXCEPT ![i] = "saving"]
    /\ UNCHANGED <<pvars, evars, rvars, file, instance_ids, dataset, existing_results, mpc,
                   evaluated, raised, updated_data, updated_dataset>>

\* variant: the lock is taken before collect_tests_for_instance is called
AcquireLock_early(i) ==
    /\ mpc = "pool"
    /\ tpc[i] = "evaluating"
    /\ lock = ""
    /\ lock' = i
    /\ UNCHANGED <<pvars, evars, rvars, file, instance_ids, dataset, existing_results, results,
                   mpc, tpc, evaluated, raised, updated_data, updated_dataset>>

\* lines 490-491 and 500-501: `with lock:` is entered, the pair is stored
AcquireLock(i) ==
    /\ mpc = "pool"
    /\ tpc[i] = "waiting"
    /\ lock = ""
    /\ lock' = i
    /\ results' = [j \in DOMAIN results \cup {i} |->
                      IF j = i THEN evaluated[i][1] ELSE results[j]]
    /\ tpc' = [tpc EXCEPT ![i] = "saving"]
    /\ UNCHANGED <<pvars, evars, rvars, file, instance_ids, dataset, existing_results, mpc,
                   evaluated, raised, updated_data, updated_dataset>>

\* save_result_to_file, lines 445-474: the file is loaded and the result
\* merged in; when loading raises, the except clause (line 480) logs it
ReadAndMerge(i) ==
    /\ mpc = "pool"
    /\ tpc[i] = "saving"
    /\ IF SaveFails(file)
       THEN /\ tpc' = [tpc EXCEPT ![i] = "saved"]
            /\ UNCHANGED updated_data
       ELSE /\ tpc' = [tpc EXCEPT ![i] = "writing"]
            /\ updated_data' = [updated_data EXCEPT ![i] = MergeResult(file, i, evaluated[i][1])]
    /\ UNCHANGED <<pvars, evars, rvars, file, instance_ids, dataset, existing_results, results, lock,
                   mpc, evaluated, raised, updated_dataset>>

\* line 476: open(output_path, 'w') empties the file
OpenForWrite(i) ==
    /\ mpc = "pool"
    /\ tpc[i] = "writing"
    /\ file' = OpenedFile
    /\ tpc' = [tpc EXCEPT ![i] = "dumping"]
    /\ UNCHANGED <<pvars, evars, rvars, instance_ids, dataset, existing_results, results, lock, mpc,
                   evaluated, raised, updated_data, updated_dataset>>

\* line 477: json.dump writes the list, the file is closed
Dump(i) ==
    /\ mpc = "pool"
    /\ tpc[i] = "dumping"
    /\ file' = ValidFile(updated_data[i])
    /\ tpc' = [tpc EXCEPT ![i] = "saved"]
    /\ UNCHANGED <<pvars, evars, rvars, instance_ids, dataset, existing_results, results, lock, mpc,
                   evaluated, raised, updated_data, updated_dataset>>

\* lines 492-493 and 502-503: pbar.update(), the with statement is left
ReleaseLock(i) ==
    /\ mpc = "pool"
    /\ tpc[i] = "saved"
    /\ lock' = ""
    /\ tpc' = [tpc EXCEPT ![i] = "finished"]
    /\ UNCHANGED <<pvars, evars, rvars, file, instance_ids, dataset, existing_results, results, mpc,
                   evaluated, raised, updated_data, updated_dataset>>

\* line 507: run_threadpool returns when every call has returned
JoinWorkers ==
    /\ mpc = "pool"
    /\ \A i \in Payloads : tpc[i] = "finished"
    /\ mpc' = "merge"
    /\ UNCHANGED <<pvars, evars, rvars, file, instance_ids, dataset, existing_results, results, lock,
                   tpc, evaluated, raised, updated_data, updated_dataset>>

\* lines 511-531
MergeFinal ==
    /\ mpc = "merge"
    /\ updated_dataset' = FinalMerge(dataset, existing_results, results)
    /\ mpc' = "final_open"
    /\ UNCHANGED <<pvars, evars, rvars, file, instance_ids, dataset, existing_results, results, lock,
                   tpc, evaluated, raised, updated_data>>

\* line 535: open(output_path, 'w')
OpenFinal ==
    /\ mpc = "final_open"
    /\ file' = OpenedFile
    /\ mpc' = "final_dump"
    /\ UNCHANGED <<pvars, evars, rvars, instance_ids, dataset, existing_results, results, lock, tpc,
                   evaluated, raised, updated_data, updated_dataset>>

\* line 536: json.dump(updated_dataset, f, indent=2)
DumpFinal ==
    /\ mpc = "final_dump"
    /\ file' = ValidFile(updated_dataset)
    /\ mpc' = "summary"
    /\ UNCHANGED <<pvars, evars, rvars, instance_ids, dataset, existing_results, results, lock, tpc,
                   evaluated, raised, updated_data, updated_dataset>>

\* lines 545-555: the summary reads both label keys of every dict
Summary ==
    /\ mpc = "summary"
    /\ mpc' = IF SummaryFails(updated_dataset) THEN "crashed" ELSE "done"
    /\ UNCHANGED <<pvars, evars, rvars, file, instance_ids, dataset, existing_results, results, lock,
                   tpc, evaluated, raised, updated_data, updated_dataset>>

MainNext ==
    \/ FilterDataset
    \/ BuildEnvImages
    \/ LoadExistingResults
    \/ \E i \in DatasetIds : StartWorker(i)
    \/ \E i \in DatasetIds : Evaluate(i)
    \/ \E i \in DatasetIds : AcquireLock(i)
    \/ \E i \in DatasetIds : ReadAndMerge(i)
    \/ \E i \in DatasetIds : OpenForWrite(i)
    \/ \E i \in DatasetIds : Dump(i)
    \/ \E i \in DatasetIds : ReleaseLock(i)
    \/ JoinWorkers
    \/ MergeFinal
    \/ OpenFinal
    \/ DumpFinal
    \/ Summary

MainSpec == MainInit /\ [][MainNext]_vars

\* ============================================ main, stopped and run again
\* the process is stopped from outside: nothing of it runs any more, the
\* output file is left as it is
Stop ==
    /\ mpc \notin {"stopped", "done", "crashed"}
    /\ mpc' = "stopped"
    /\ UNCHANGED <<pvars, evars, rvars, file, instance_ids, dataset, existing_results, results,
                   lock, tpc, evaluated, raised, updated_data, updated_dataset>>

\* main is called again with the same arguments (lines 355-377): the
\* dataset is loaded again, the objects of main are new, the output file is
\* the one the run before left
Restart ==
    /\ mpc \in {"stopped", "done", "crashed"}
    /\ in_flight' = IF mpc = "stopped" THEN {i \in DatasetIds : tpc[i] = "evaluating"} ELSE {}
    /\ dataset' = InstanceIds
    /\ existing_results' = InstanceMap(<<>>)
    /\ results' = InstanceMap(<<>>)
    /\ lock' = ""
    /\ mpc' = "filter"
    /\ tpc' = [i \in DatasetIds |-> "idle"]
    /\ evaluated' = [i \in DatasetIds |-> <<>>]
    /\ raised' = {}
    /\ updated_data' = [i \in DatasetIds |-> <<>>]
    /\ updated_dataset' = <<>>
    /\ UNCHANGED <<pvars, evars, file, instance_ids, outcome, first_file>>

\* every evaluation of an instance gives the same outcome: it raises, or it
\* returns the same labels
DeterministicOutcomes == [DatasetIds -> {{Raises}, {<<<<"A">>, <<"B">>>>}}]

ResumeInit ==
    /\ ParserIdle
    /\ EvaluatorIdle("", {})
    /\ file \in InitialFiles
    /\ instance_ids \in InstanceIdOptions
    /\ dataset = InstanceIds
    /\ existing_results = InstanceMap(<<>>)
    /\ results = InstanceMap(<<>>)
    /\ lock = ""
    /\ mpc = "filter"
    /\ tpc = [i \in DatasetIds |-> "idle"]
    /\ evaluated = [i \in DatasetIds |-> <<>>]
    /\ raised = {}
    /\ updated_data = [i \in DatasetIds |-> <<>>]
    /\ updated_dataset = <<>>
    /\ outcome \in DeterministicOutcomes
    /\ first_file = file
    /\ in_flight = {}

ResumeNext ==
    \/ MainNext
    \/ Stop
    \/ Restart

ResumeSpec == ResumeInit /\ [][ResumeNext]_vars

\* ================================================================ claims
Elems(seq) == {seq[i] : i \in 1..Len(seq)}
Ascending(seq) == \A i, j \in 1..Len(seq) : i < j => Ord(seq[i]) < Ord(seq[j])
Returned == ret # <<>>

IsApply(e) == e.op = "apply"
ApplyEvents == SelectSeq(events, IsApply)

\* work of the patched phase: the patch is copied in or applied, or the
\* eval script is copied in or run after the reset
PatchedWork(e) ==
    \/ e.op \in {"copy_patch", "apply"}
    \/ e.op \in {"copy_eval", "run_tests"} /\ e.phase = "after"

BaselineWork(e) == e.op \in {"copy_eval", "run_tests"} /\ e.phase = "before"

\* ---------------------------------------------------------------- C1
\* C1: when both phases completed, the returned FAIL_TO_PASS is the
\* ascending sequence without repetition of the identifiers that are failed
\* or errored in the baseline and passed in the patched run, PASS_TO_PASS
\* the same for passed in both; an identifier absent from either run is in
\* neither sequence.
C1_LabelsAreTheDifferential ==
    (Returned /\ before_result # <<>> /\ after_result # <<>>) =>
        LET b == before_result[1]
            a == after_result[1]
        IN  /\ Ascending(ret[1])
            /\ Ascending(ret[2])
            /\ Elems(ret[1]) =
                 {t \in AllIds : (t \in b.failed \/ t \in b.errors) /\ t \in a.passed}
            /\ Elems(ret[2]) = {t \in AllIds : t \in b.passed /\ t \in a.passed}
            /\ \A t \in AllIds :
                 (t \notin all_tests(b) \/ t \notin all_tests(a)) =>
                     t \notin Elems(ret[1]) \cup Elems(ret[2])

\* the scenario of the specification: A failed and B passed before, both
\* passed after
C1_Witness ==
    /\ pc = "done"
    /\ before_result # <<>> /\ after_result # <<>>
    /\ "A" \in before_result[1].failed
    /\ "B" \in before_result[1].passed
    /\ {"A", "B"} \subseteq after_result[1].passed
    /\ ret = <<<<"A">>, <<"B">>>>

\* ---------------------------------------------------------------- C2
\* C2: whatever aborted the evaluation, the pair that is returned, and the
\* result the worker keeps for the instance, are two empty sequences.
C2_AbortYieldsEmptyLabels ==
    abort # NoAbort =>
        /\ Returned => ret = <<<<>>, <<>>>>
        /\ labels # <<>> => labels = <<<<>>, <<>>>>

\* the patched run timed out after a baseline with passing tests
C2_Witness ==
    /\ pc = "recorded"
    /\ abort = [at |-> "run_after", why |-> "timeout"]
    /\ before_result # <<>>
    /\ "A" \in before_result[1].passed
    /\ labels = <<<<>>, <<>>>>

\* ---------------------------------------------------------------- C5
\* C5: once collect_tests_for_instance has ended, by a return or by an
\* exception, no container it built exists any more.
C5_NoSandboxLeft ==
    pc \in {"done", "raised", "recorded"} =>
        \A h \in Handles : sandbox[h] \in {"absent", "removed"}

\* the second container was running when the patched run timed out
C5_Witness ==
    /\ pc = "done"
    /\ abort = [at |-> "run_after", why |-> "timeout"]
    /\ \E j \in 1..Len(events) :
          events[j].op = "start" /\ events[j].h = 2 /\ events[j].outcome = "ok"
    /\ sandbox[2] = "removed"

\* ---------------------------------------------------------------- C6
\* C6: the container of the baseline run is stopped and removed before the
\* container of the patched run is built, and every step of the patched
\* phase runs in a container that was built and started after that and
\* that no baseline step has used.
C6_NoSandboxReuse ==
    /\ \A j \in 1..Len(events) :
         (events[j].op = "build" /\ events[j].phase = "after") =>
             \E i, k \in 1..(j - 1) :
                 /\ i < k
                 /\ events[i].op = "stop" /\ events[i].outcome = "ok"
                 /\ events[k].op = "remove" /\ events[k].outcome = "ok"
                 /\ events[i].h = events[k].h
                 /\ \A n \in 1..(j - 1) : BaselineWork(events[n]) => events[n].h = events[i].h
    /\ \A j \in 1..Len(events) :
         PatchedWork(events[j]) =>
             /\ \A n \in 1..Len(events) : BaselineWork(events[n]) => events[n].h # events[j].h
             /\ \E i, k \in 1..(j - 1) :
                 /\ i < k
                 /\ events[i].op = "build" /\ events[i].outcome = "ok"
                 /\ events[i].phase = "after" /\ events[i].h = events[j].h
                 /\ events[k].op = "start" /\ events[k].outcome = "ok"
                 /\ events[k].h = events[j].h
    /\ \A h \in Handles : (sandbox[h] # "absent" /\ h # 1) => sandbox[1] = "removed"

\* the patch was applied and the tests were run in the second container
C6_Witness ==
    /\ sandbox[1] = "removed"
    /\ \E i, j \in 1..Len(events) :
          /\ events[i].op = "apply" /\ events[i].h = 2 /\ events[i].outcome = "ok"
          /\ events[j].op = "run_tests" /\ events[j].h = 2 /\ events[j].outcome = "ok"
          /\ events[j].phase = "after"

\* ---------------------------------------------------------------- C7
\* C7: every step of the patched phase comes after the completed baseline
\* test run, and no baseline step comes after a step of the patched phase.
C7_PhasesSequential ==
    \A j \in 1..Len(events) :
        PatchedWork(events[j]) =>
            /\ \E i \in 1..(j - 1) :
                 /\ events[i].op = "run_tests" /\ events[i].phase = "before"
                 /\ events[i].outcome = "ok"
            /\ \A n \in (j + 1)..Len(events) : ~BaselineWork(events[n])

\* a first patch command has failed in the patched phase
C7_Witness ==
    /\ pc = "run" /\ phase = "after" /\ rpc = "apply" /\ cmd_idx = 2
    /\ before_result # <<>>

\* ---------------------------------------------------------------- C8
\* a step of the baseline phase raised, or the baseline tests timed out
BaselineRunFailed ==
    \E j \in 1..Len(events) :
        /\ events[j].phase = "before"
        /\ events[j].op \in {"build", "start", "copy_eval", "run_tests"}
        /\ events[j].outcome # "ok"

\* C8: when the baseline run does not complete, the result is ([], []):
\* no second container is built, no patch command and no patched test run
\* is executed.
C8_BaselineFailureSkipsPatched ==
    BaselineRunFailed =>
        /\ ret = <<<<>>, <<>>>>
        /\ pc \in {"finally", "done", "recorded"}
        /\ after_result = <<>>
        /\ sandbox[2] = "absent"
        /\ \A j \in 1..Len(events) :
             /\ ~PatchedWork(events[j])
             /\ events[j].phase = "before"
             /\ (events[j].op = "build" /\ events[j].outcome = "ok" => events[j].h = 1)

\* the baseline run timed out
C8_Witness ==
    /\ pc = "recorded"
    /\ abort = [at |-> "run_before", why |-> "timeout"]
    /\ labels = <<<<>>, <<>>>>
    /\ \E j \in 1..Len(events) :
          events[j].op = "run_tests" /\ events[j].outcome = "timeout"

\* ---------------------------------------------------------------- C9
\* C9: the k-th patch command executed is the k-th of GIT_APPLY_CMDS, and
\* every command executed before it exited with a non-success status.
C9_StrategiesInOrderUntilSuccess ==
    LET a == ApplyEvents
    IN  /\ Len(a) <= Len(GIT_APPLY_CMDS)
        /\ \A k \in 1..Len(a) :
             /\ k <= Len(GIT_APPLY_CMDS) => a[k].cmd = GIT_APPLY_CMDS[k]
             /\ \A i \in 1..(k - 1) : a[i].outcome = "failed"

\* the second command succeeded after the first failed, and the run ended
C9_Witness ==
    /\ pc = "recorded"
    /\ Len(ApplyEvents) = 2
    /\ ApplyEvents[1].outcome = "failed"
    /\ ApplyEvents[2].outcome = "ok"
    /\ ApplyEvents[2].cmd = "git apply --verbose --reject"

\* ---------------------------------------------------------------- C10
PatchReportedFailed == abort = [at |-> "run_after", why |-> "patch_failed"]

AllStrategiesFailed ==
    /\ Len(ApplyEvents) = 3
    /\ \A k \in 1..Len(ApplyEvents) : ApplyEvents[k].code # 0 /\ ApplyEvents[k].outcome = "failed"

OnlyLastApplies ==
    /\ Len(ApplyEvents) = 3
    /\ ApplyEvents[1].outcome = "failed"
    /\ ApplyEvents[2].outcome = "failed"
    /\ ApplyEvents[3].outcome = "ok" /\ ApplyEvents[3].code = 0
    /\ ApplyEvents[3].cmd = "patch --batch --fuzz=5 -p1 -i"

\* C10: patch application is reported failed exactly when each of the three
\* commands exited with a non-success status; when only the last command
\* succeeds the patch counts as applied and the phase goes on to the eval
\* script.
C10_FailedIffEveryStrategyFailed ==
    /\ PatchReportedFailed <=> AllStrategiesFailed
    /\ OnlyLastApplies =>
         /\ applied_patch
         /\ ~PatchReportedFailed
         /\ \/ pc = "run" /\ rpc = "copy_eval"
            \/ \E j \in 1..Len(events) : events[j].op = "copy_eval" /\ events[j].phase = "after"

\* only the last command applied the patch and the tests were run
C10_Witness ==
    /\ OnlyLastApplies
    /\ \E j \in 1..Len(events) :
          /\ events[j].op = "run_tests" /\ events[j].phase = "after"
          /\ events[j].outcome = "ok"
    /\ after_result # <<>>

\* ---------------------------------------------------------------- C3
Payload(l) == Slice(l, xml_start(l), xml_end(l))

\* the identifiers the run reports to the tier that produced the result:
\* the test-case records of the payload, or the lines a pattern matches
ObservedIds(l) ==
    IF UsesXml(l)
    THEN {Payload(l)[i].id : i \in {n \in 1..Len(Payload(l)) : Payload(l)[n].kind = "testcase"}}
    ELSE {l[i].id : i \in {n \in 1..Len(l) : l[n].kind \in {"passed_re", "failed_re", "skipped_re"}}}

VerdictSetsOf(r, t) ==
    {f \in {"passed", "failed", "skipped", "errors"} :
        t \in (CASE f = "passed" -> r.passed
                 [] f = "failed" -> r.failed
                 [] f = "skipped" -> r.skipped
                 [] OTHER -> r.errors)}

\* C3: the four sets of the TestResult built from one parsed output are
\* pairwise disjoint, and every identifier observed in the output is in
\* exactly one of them.
C3_ExactlyOneVerdictSet ==
    parsed =>
        /\ result.passed \cap result.failed = {}
        /\ result.passed \cap result.skipped = {}
        /\ result.passed \cap result.errors = {}
        /\ result.failed \cap result.skipped = {}
        /\ result.failed \cap result.errors = {}
        /\ result.skipped \cap result.errors = {}
        /\ \A t \in ObservedIds(log) \cup {static_verification} :
             Cardinality(VerdictSetsOf(result, t)) = 1

\* one identifier was reported failed and skipped, another one passed
C3_Witness ==
    /\ parsed
    /\ \E i, j \in 1..Len(log) :
          /\ log[i].kind = "failed_re" /\ log[j].kind = "skipped_re"
          /\ log[i].id = log[j].id
    /\ ObservedIds(log) = TestIds
    /\ result.passed # {}

\* ---------------------------------------------------------------- C4
\* the statuses one output associates with identifier t, in the tier that
\* produced the result
StatusesSeen(l, t) ==
    IF UsesXml(l)
    THEN {st \in {PASSED, FAILED, SKIPPED} :
            \E i \in 1..Len(Payload(l)) :
                /\ Payload(l)[i].kind = "testcase" /\ Payload(l)[i].id = t
                /\ \/ st = FAILED /\ Payload(l)[i].marks \cap {"failure", "error"} # {}
                   \/ st = SKIPPED /\ "skipped" \in Payload(l)[i].marks
                   \/ st = PASSED /\ Payload(l)[i].marks = {}}
    ELSE {st \in {PASSED, FAILED, SKIPPED} :
            \E i \in 1..Len(l) :
                /\ l[i].id = t
                /\ \/ st = FAILED /\ l[i].kind = "failed_re"
                   \/ st = SKIPPED /\ l[i].kind = "skipped_re"
                   \/ st = PASSED /\ l[i].kind = "passed_re"}

\* C4: an identifier seen with several statuses gets the verdict of the
\* precedence failed/error > skipped > passed.
C4_FailedOverSkippedOverPassed ==
    parsed =>
        \A t \in TestIds :
            StatusesSeen(log, t) # {} =>
                /\ t \in DOMAIN status_map
                /\ status_map[t] = IF FAILED \in StatusesSeen(log, t) THEN FAILED
                                   ELSE IF SKIPPED \in StatusesSeen(log, t) THEN SKIPPED
                                   ELSE PASSED

\* ---------------------------------------------------------------- C11
EvalInPatchedSandbox(e) == e.op \in {"copy_eval", "run_tests"} /\ e.phase = "after"

\* C11: when every patch command has exited with a non-success status, the
\* eval script is neither copied into nor run in the patched container, the
\* function returns two empty sequences by a return (not by an exception
\* that leaves it), and the worker records two empty sequences.
C11_NoStrategyAbandonsPatchedRun ==
    AllStrategiesFailed =>
        /\ \A j \in 1..Len(events) : ~EvalInPatchedSandbox(events[j])
        /\ pc \in {"finally", "done", "recorded"}
        /\ after_result = <<>>
        /\ ret = <<<<>>, <<>>>>
        /\ pc = "recorded" => labels = <<<<>>, <<>>>>

\* the three commands failed after a baseline that reported a failed test;
\* the worker has recorded the result
C11_Witness ==
    /\ pc = "recorded"
    /\ AllStrategiesFailed
    /\ before_result # <<>>
    /\ before_result[1].failed # {}
    /\ labels = <<<<>>, <<>>>>
    /\ \E j \in 1..Len(events) : events[j].op = "cleanup" /\ events[j].h = 2

\* ---------------------------------------------------------------- C12
CommandRunning == pc = "run" /\ rpc \in {"apply", "exec"}

\* C12: the worker never waits for a command in a container, a patch
\* command or the eval script, longer than the timeout; a command that
\* reaches the timeout ends the phase as a failed one.
C12_CommandsBoundedByTimeout ==
    /\ CommandRunning => clock <= timeout
    /\ \A j \in 1..Len(events) :
         events[j].outcome = "timeout" =>
             /\ abort.why = "timeout"
             /\ ret = <<<<>>, <<>>>>

\* ---------------------------------------------------------------- C13
MatchesOnSomeLine(l, kind, t) == \E i \in 1..Len(l) : l[i].kind = kind /\ l[i].id = t

\* C13: when the fallback scan produced the result, an identifier matched
\* by a passed pattern on one line and by a failed pattern on another line,
\* in either order, has the verdict FAILED and is not in the passed set.
C13_FallbackFailedDominatesPassed ==
    (parsed /\ ~UsesXml(log)) =>
        \A t \in TestIds :
            (MatchesOnSomeLine(log, "passed_re", t) /\ MatchesOnSomeLine(log, "failed_re", t)) =>
                /\ t \in DOMAIN status_map
                /\ status_map[t] = FAILED
                /\ t \in result.failed
                /\ t \notin result.passed

\* ---------------------------------------------------------------- C14
FirstIndex(l, line) == CHOOSE i \in 1..Len(l) : l[i] = line /\ \A j \in 1..(i - 1) : l[j] # line

NoStartSentinel(l) == \A i \in 1..Len(l) : l[i] # XmlStart
NoEndSentinel(l) == \A i \in 1..Len(l) : l[i] # XmlEnd

\* both sentinels are there and what they delimit is not a document: the
\* end sentinel comes first, or a malformed fragment or a second
\* declaration lies between them
MalformedPayload(l) ==
    /\ ~NoStartSentinel(l) /\ ~NoEndSentinel(l)
    /\ \/ FirstIndex(l, XmlEnd) < FirstIndex(l, XmlStart)
       \/ \E i \in (FirstIndex(l, XmlStart) + 1)..(FirstIndex(l, XmlEnd) - 1) :
             l[i] \in {Malformed, XmlStart}

TextMatches(l, t) ==
    {l[i].kind : i \in {n \in 1..Len(l) :
                          l[n].kind \in {"passed_re", "failed_re", "skipped_re"} /\ l[n].id = t}}

\* C14: when a sentinel of the structured payload is absent or the payload
\* is malformed, parsing returns a result, and the result is that of the
\* line patterns alone: an identifier has a verdict exactly when a pattern
\* matches it on some line, no test-case record contributes, and the
\* static-verification entry is present.
C14_UnusablePayloadGivesFallback ==
    (parsed /\ (NoStartSentinel(log) \/ NoEndSentinel(log) \/ MalformedPayload(log))) =>
        /\ DOMAIN status_map = {t \in TestIds : TextMatches(log, t) # {}} \cup {static_verification}
        /\ \A t \in TestIds :
             TextMatches(log, t) # {} =>
                 status_map[t] = IF "skipped_re" \in TextMatches(log, t) THEN SKIPPED
                                 ELSE IF "failed_re" \in TextMatches(log, t) THEN FAILED
                                 ELSE PASSED
        /\ status_map[static_verification] \in {PASSED, FAILED}

\* a payload that is never closed holds a failing record of A, a line
\* reports B passed: only B has a verdict
C14_Witness ==
    /\ parsed
    /\ ~NoStartSentinel(log) /\ NoEndSentinel(log)
    /\ \E i \in 1..Len(log) :
          log[i].kind = "testcase" /\ log[i].id = "A" /\ "failure" \in log[i].marks
    /\ DOMAIN status_map = {"B", static_verification}
    /\ status_map["B"] = PASSED

\* ---------------------------------------------------------------- C15
Records(l) == {i \in 1..Len(Payload(l)) : Payload(l)[i].kind = "testcase"}

MarkerClass(marks) ==
    IF marks \cap {"failure", "error"} # {} THEN FAILED
    ELSE IF "skipped" \in marks THEN SKIPPED
    ELSE PASSED

\* C15: when the structured payload produced the result, every test-case
\* record gives its identifier a verdict; the verdict is the class of a
\* record of that identifier, where the class of a record is failed for a
\* failure or error marker, else skipped for a skip marker, else passed; it
\* is the class of the record itself when the identifier has one record;
\* and the identifier of a record with a failure or error marker is never
\* reported passed.
C15_RecordClassifiedByMarkers ==
    (parsed /\ UsesXml(log)) =>
        \A i \in Records(log) :
            LET tc == Payload(log)[i]
                same == {j \in Records(log) : Payload(log)[j].id = tc.id}
            IN  /\ tc.id \in DOMAIN status_map
                /\ status_map[tc.id] \in {MarkerClass(Payload(log)[j].marks) : j \in same}
                /\ same = {i} => status_map[tc.id] = MarkerClass(tc.marks)
                /\ tc.marks \cap {"failure", "error"} # {} =>
                     /\ status_map[tc.id] # PASSED
                     /\ tc.id \notin result.passed

\* a record with a failure and a skip marker is reported failed
C15_Witness ==
    /\ parsed /\ UsesXml(log)
    /\ \E i \in Records(log) :
          /\ Payload(log)[i].marks = {"failure", "skipped"}
          /\ status_map[Payload(log)[i].id] = FAILED
          /\ Payload(log)[i].id \in result.failed

\* ---------------------------------------------------------------- C16
SentinelLines(l) == {i \in 1..Len(l) : l[i].kind = "static_ok"}

\* C16: the result of parsing, whichever tier produced it, has an entry
\* for static_verification; the entry is PASSED when the success sentinel
\* is somewhere in the output, inside or outside the payload, and FAILED
\* when it is nowhere.
C16_StaticVerificationIffSentinel ==
    parsed =>
        /\ static_verification \in DOMAIN status_map
        /\ SentinelLines(log) # {} => status_map[static_verification] = PASSED
        /\ SentinelLines(log) = {} => status_map[static_verification] = FAILED
        /\ static_verification \in result.passed <=> SentinelLines(log) # {}
        /\ static_verification \in result.failed <=> SentinelLines(log) = {}

\* the payload was used and the sentinel lies inside it
C16_Witness ==
    /\ parsed /\ UsesXml(log)
    /\ \E i \in SentinelLines(log) : i <= Len(Payload(log)) + xml_start(log)
    /\ status_map[static_verification] = PASSED
    /\ static_verification \in result.passed

\* ---------------------------------------------------------------- C17
BothPhasesCompleted == Returned /\ before_result # <<>> /\ after_result # <<>>

\* C17: when both phases completed, every identifier that is failed in the
\* baseline result and passed in the patched result is in FAIL_TO_PASS,
\* and FAIL_TO_PASS holds no identifier that is not failed in the baseline
\* result or not passed in the patched result.
C17_FailToPassIsFailedThenPassed ==
    BothPhasesCompleted =>
        /\ \A t \in AllIds :
             (t \in before_result[1].failed /\ t \in after_result[1].passed) =>
                 \E i \in 1..Len(ret[1]) : ret[1][i] = t
        /\ \A i \in 1..Len(ret[1]) :
             /\ ret[1][i] \in before_result[1].failed
             /\ ret[1][i] \in after_result[1].passed

\* A is fixed by the patch; B, which the baseline did not report, passes
\* after the patch and is not counted as fixed
C17_Witness ==
    /\ pc = "recorded"
    /\ BothPhasesCompleted
    /\ "A" \in before_result[1].failed /\ "A" \in after_result[1].passed
    /\ "B" \notin all_tests(before_result[1]) /\ "B" \in after_result[1].passed
    /\ static_verification \in before_result[1].failed
    /\ labels[1] = <<"A">>

\* ---------------------------------------------------------------- C18
\* C18: every step of a run that changes the output file leaves in it a
\* complete collection: the file is never seen emptied or half written.
C18_RewritesAreAtomic == [][file' # file => Loads(file')]_vars

\* ---------------------------------------------------------------- C19
InCriticalSection(i) == tpc[i] \in {"saving", "writing", "dumping", "saved"}
WorkersRunning == \E i \in DatasetIds : tpc[i] \notin {"idle", "finished"}

\* C19: two calls are never inside the read-merge-write sequence together,
\* the call that is inside holds the lock, and main starts its final write
\* only when no call is running.
C19_OneWriterUnderLock ==
    /\ \A i, j \in DatasetIds : (InCriticalSection(i) /\ InCriticalSection(j)) => i = j
    /\ \A i \in DatasetIds : InCriticalSection(i) => lock = i
    /\ (file.kind = "opened" /\ WorkersRunning) =>
          \E i \in DatasetIds : tpc[i] = "dumping" /\ lock = i
    /\ mpc \in {"merge", "final_open", "final_dump", "summary"} => ~WorkersRunning

\* one call is writing the file while another holds its pair and waits
\* for the lock
C19_Witness ==
    \E i, j \in DatasetIds :
        /\ i # j
        /\ tpc[i] = "dumping" /\ lock = i /\ file.kind = "opened"
        /\ tpc[j] = "waiting" /\ evaluated[j] # <<>>

\* ---------------------------------------------------------------- C20
AllWorkersFinished == mpc = "merge"

RecordsOf(i) == {k \in 1..Len(file.recs) : file.recs[k].instance_id = i}

HoldsLabelsOf(i) ==
    /\ Loads(file)
    /\ Cardinality(RecordsOf(i)) = 1
    /\ \A k \in RecordsOf(i) : file.recs[k].labels = evaluated[i][1]

Labeled(f, i) ==
    /\ Loads(f)
    /\ \E k \in 1..Len(f.recs) : f.recs[k].instance_id = i /\ f.recs[k].labels # <<>>

FullyLabeled == \A i \in DatasetIds : Labeled(file, i)

\* C22: when the output file holds a labeled dict of every instance of the
\* dataset, the run ends at line 386: the file is left as it is, no call of
\* collect_with_progress is queued, nothing is evaluated, and after the end
\* nothing happens (no image is built).
C22_LabeledDatasetIsLeftAlone ==
    [][/\ (mpc = "filter" /\ FullyLabeled) =>
            /\ mpc' = "done"
            /\ dataset' = <<>>
            /\ UNCHANGED <<file, tpc, evaluated, results>>
       /\ (mpc = "done" /\ dataset = <<>>) => UNCHANGED vars]_vars

\* the run has ended on a fully labeled file without starting anything
C22_Witness ==
    /\ mpc = "done"
    /\ FullyLabeled
    /\ dataset = <<>>
    /\ file = first_file
    /\ \A i \in DatasetIds : tpc[i] = "idle" /\ evaluated[i] = <<>>

\* ---------------------------------------------------------------- C23
RunGoesOn == ENABLED MainNext

\* C23: an exception of an evaluation is turned into the pair ([], []) by
\* collect_with_progress; it does not end the run, which goes on while the
\* pool is at work; run_threadpool returns only when every instance of the
\* filtered dataset has been evaluated, and after the final write the file
\* holds for each of them one dict with its pair (two empty lists for the
\* instance whose evaluation raised).
C23_InstanceFailureIsContained ==
    /\ \A i \in raised : evaluated[i] = <<EmptyLabels>>
    /\ (raised # {} /\ mpc = "pool") => RunGoesOn
    /\ (raised # {} /\ mpc = "crashed") => updated_dataset # <<>>
    /\ mpc \in {"merge", "final_open", "final_dump", "summary"} =>
          \A i \in Payloads : tpc[i] = "finished" /\ evaluated[i] # <<>>
    /\ mpc = "summary" =>
          \A i \in Payloads :
              /\ Cardinality(RecordsOf(i)) = 1
              /\ \A k \in RecordsOf(i) : file.recs[k].labels = evaluated[i][1]

\* the evaluation of i2 raised, i1 and i3 were evaluated and gave labels,
\* and the three dicts are in the file
C23_Witness ==
    /\ mpc = "summary"
    /\ raised = {"i2"}
    /\ evaluated["i1"] = <<<<<<"A">>, <<"B">>>>>>
    /\ evaluated["i3"] = <<<<<<"A">>, <<"B">>>>>>
    /\ \A k \in RecordsOf("i2") : file.recs[k].labels = EmptyLabels
    /\ \A i \in {"i1", "i3"} : \A k \in RecordsOf(i) : file.recs[k].labels = evaluated[i][1]
    /\ Cardinality(RecordsOf("i2")) = 1

\* ---------------------------------------------------------------- C24
UniqueAscending(recs) ==
    \A a, b \in 1..Len(recs) :
        a < b => IdOrd(recs[a].instance_id) < IdOrd(recs[b].instance_id)

\* C24: every write that leaves a list in the output file, by
\* save_result_to_file or by the final write of main, leaves a list in
\* which the identifiers are in strictly ascending order, hence distinct.
C24_WrittenListIsUniqueAscending ==
    [][(file' # file /\ Loads(file')) => UniqueAscending(file'.recs)]_vars

\* a result was saved on top of a list that was not sorted: the list in the
\* file is now sorted and holds the dicts of i1, i2 and i3
C24_Witness ==
    /\ first_file = UnsortedFile
    /\ ~UniqueAscending(first_file.recs)
    /\ tpc["i2"] = "saved"
    /\ Loads(file)
    /\ Len(file.recs) = 3
    /\ UniqueAscending(file.recs)

\* ---------------------------------------------------------------- C27
\* the call of collect_tests_for_instance, which does all the work on
\* images and containers, has not returned yet
Evaluating(i) == tpc[i] = "evaluating"

\* C27: the call that holds the lock has its evaluation behind it (its pair
\* is computed) and is at the store, the read-merge-write of the file or
\* the progress update; a call that is evaluating does not hold the lock.
C27_NoEvaluationUnderLock ==
    \A i \in DatasetIds :
        /\ lock = i => (~Evaluating(i) /\ evaluated[i] # <<>> /\ InCriticalSection(i))
        /\ Evaluating(i) => lock # i

\* i1 holds the lock and has read and merged the file while i2 is
\* evaluating
C27_Witness ==
    /\ lock = "i1"
    /\ tpc["i1"] = "writing"
    /\ updated_data["i1"] # <<>>
    /\ Evaluating("i2")

\* ---------------------------------------------------------------- C28
DictsOf(recs, i) == {recs[k] : k \in {n \in 1..Len(recs) : recs[n].instance_id = i}}

\* the list new is the list old with the labels of i set to lbl and nothing
\* else changed
OnlyLabelsOfChanged(i, old, new, lbl) ==
    /\ \A j \in DatasetIds \ {i} : DictsOf(new, j) = DictsOf(old, j)
    /\ \E d \in DictsOf(new, i) :
          /\ DictsOf(new, i) = {d}
          /\ d.labels = lbl
          /\ d.data = IF DictsOf(old, i) = {} THEN DatasetEntry(i).data
                      ELSE (CHOOSE e \in DictsOf(old, i) : TRUE).data

\* C28: the list save_result_to_file computes for instance i differs from
\* the list it read (the empty list when there is no file) only by the
\* dict of i, whose fields other than the labels are those of the dict it
\* had, or of the dataset when it had none; and this list is what the write
\* leaves in the file.
C28_SaveChangesOnlyTheInstance ==
    [][\A i \in DatasetIds :
          /\ (tpc[i] = "saving" /\ tpc'[i] = "writing") =>
                OnlyLabelsOfChanged(i, file.recs, updated_data'[i], evaluated[i][1])
          /\ (tpc[i] = "dumping" /\ tpc'[i] = "saved") =>
                file' = ValidFile(updated_data[i])]_vars

\* the result of i1 was saved in a file that held a dict of i1 without
\* labels and a labeled dict of i3: i1 has kept its fields and got its
\* labels, the dict of i3 is as it was
C28_Witness ==
    /\ tpc["i1"] = "saved"
    /\ Loads(first_file)
    /\ DictsOf(first_file.recs, "i1") = {Record("i1", "earlier", <<>>)}
    /\ Loads(file)
    /\ DictsOf(file.recs, "i1") = {Record("i1", "earlier", <<<<"A">>, <<"B">>>>)}
    /\ DictsOf(file.recs, "i3") = {Record("i3", "earlier", EarlierLabels)}
    /\ DictsOf(file.recs, "i3") = DictsOf(first_file.recs, "i3")

\* ---------------------------------------------------------------- C25
\* the label pairs the list of file f holds for instance i
LabelsIn(f, i) == {d.labels : d \in DictsOf(f.recs, i)} \ {<<>>}

\* C25: an instance that had both label sequences in the output file the
\* first run found has the same sequences in every list that is in the
\* file later, in that run and in the runs that follow.
C25_WrittenLabelsNeverChange ==
    Loads(file) =>
        \A i \in DatasetIds :
            Labeled(first_file, i) => LabelsIn(file, i) = LabelsIn(first_file, i)

\* ---------------------------------------------------------------- C26
\* C26: when a run is stopped, the file holds no labels for the instances
\* whose evaluation had not returned; labels of an instance of the run get
\* into the file only when its evaluation has returned; and the run that
\* comes next keeps in its filtered dataset every instance that was being
\* evaluated at the stop.
C26_InFlightLeavesNoLabels ==
    [][/\ mpc' = "stopped" =>
            \A i \in DatasetIds : tpc'[i] = "evaluating" => ~Labeled(file', i)
       /\ \A i \in Payloads :
            (~Labeled(file, i) /\ Labeled(file', i)) => evaluated[i] # <<>>
       /\ (mpc = "filter" /\ mpc' \notin {"filter", "stopped"}) =>
            in_flight \subseteq {dataset'[k] : k \in 1..Len(dataset')}]_vars

\* the run was stopped when i1 was saved and i2 was being evaluated: the
\* next run skips i1 and evaluates i2 again
C26_Witness ==
    /\ in_flight = {"i2"}
    /\ mpc = "pool"
    /\ tpc["i2"] = "evaluating"
    /\ tpc["i1"] = "idle"
    /\ Labeled(file, "i1")
    /\ ~Labeled(first_file, "i1")
    /\ ~Labeled(file, "i2")

\* ---------------------------------------------------------------- C21
\* what an evaluation of instance i leaves in results
LabelsOf(i) == IF Raises \in outcome[i] THEN EmptyLabels ELSE CHOOSE r \in outcome[i] : TRUE

\* the output file one run leaves when it starts on file f and is not
\* stopped
UninterruptedOutput(f) ==
    LET todo == get_instances_to_process(InstanceIds, f, instance_ids)
        res == [i \in {todo[k] : k \in 1..Len(todo)} |-> LabelsOf(i)]
    IN  IF todo = <<>> THEN f ELSE ValidFile(FinalMerge(todo, LoadExisting(f), res))

RunCompleted == mpc \in {"summary", "done"}

\* C21: with evaluations that always give the same outcome, whenever a run
\* has completed, after any number of stops and new runs, the output file
\* is the one a single run that is not stopped leaves from the first file.
C21_ResumedOutputEqualsUninterrupted ==
    RunCompleted => file = UninterruptedOutput(first_file)

\* ---------------------------------------------------------------- C29
\* the baseline run completed and its output held no verdict of a test
BaselineWithoutVerdicts ==
    /\ before_result # <<>>
    /\ all_tests(before_result[1]) \cap TestIds = {}

\* C29: when the baseline run completed without a verdict of any test, the
\* worker records two empty sequences for the instance.
C29_NoBaselineVerdictsGivesEmptyLabels ==
    (BaselineWithoutVerdicts /\ pc = "recorded") => labels = <<<<>>, <<>>>>

\* ---------------------------------------------------------------- C30
\* C30: the two sequences returned for an instance, and the two the worker
\* records, have no identifier in common, and each is strictly ascending,
\* hence without repetition.
C30_LabelsDisjointAscending ==
    /\ Returned =>
         /\ Elems(ret[1]) \cap Elems(ret[2]) = {}
         /\ \A k \in 1..(Len(ret[1]) - 1) : Ord(ret[1][k]) < Ord(ret[1][k + 1])
         /\ \A k \in 1..(Len(ret[2]) - 1) : Ord(ret[2][k]) < Ord(ret[2][k + 1])
    /\ labels # <<>> =>
         /\ Elems(labels[1]) \cap Elems(labels[2]) = {}
         /\ \A k \in 1..(Len(labels[1]) - 1) : Ord(labels[1][k]) < Ord(labels[1][k + 1])
         /\ \A k \in 1..(Len(labels[2]) - 1) : Ord(labels[2][k]) < Ord(labels[2][k + 1])

\* two tests were fixed and the static verification passed in both runs
C30_Witness ==
    /\ pc = "recorded"
    /\ labels = <<<<"A", "B">>, <<static_verification>>>>
    /\ before_result[1].failed = {"A", "B"}

\* ---------------------------------------------------------------- C31
\* the list in file f holds for instance i a dict with two empty label lists
EmptyLabeled(f, i) ==
    /\ Loads(f)
    /\ \E k \in 1..Len(f.recs) : f.recs[k].instance_id = i /\ f.recs[k].labels = EmptyLabels

\* C31: an instance for which the output file holds two empty label lists
\* is dropped from the dataset by the filter of a run, as a labeled instance
\* is, and no call of collect_with_progress is queued for it.
C31_EmptyLabeledIsSkipped ==
    [][\A i \in DatasetIds :
          /\ (Labeled(file, i) /\ mpc = "filter" /\ mpc' # "stopped") =>
                i \notin {dataset'[k] : k \in 1..Len(dataset')}
          /\ (EmptyLabeled(file, i) /\ tpc[i] = "idle") => tpc'[i] = "idle"]_vars

\* the evaluation of i1 raised in a run that was then stopped; the next run
\* leaves i1 alone and evaluates i2
C31_Witness ==
    /\ DictsOf(first_file.recs, "i1") = {}
    /\ Raises \in outcome["i1"]
    /\ EmptyLabeled(file, "i1")
    /\ in_flight = {"i2"}
    /\ mpc = "pool"
    /\ tpc["i1"] = "idle"
    /\ tpc["i2"] = "evaluating"

\* ---------------------------------------------------------------- C32
ErrorRecords(l) == {i \in Records(l) : "error" \in Payload(l)[i].marks}

\* C32: no identifier of a parsed output has the status ERROR, so the
\* errors set of the result is empty and the failed-or-errored set is the
\* failed set; a test-case record with an error marker puts its identifier
\* in the parser's failed set, and in the failed set of the result unless
\* another record put it in the skipped set, which is written last.
C32_ErrorsAlwaysEmpty ==
    parsed =>
        /\ \A t \in DOMAIN status_map : status_map[t] \in {PASSED, FAILED, SKIPPED}
        /\ result.errors = {}
        /\ result.failed \cup result.errors = result.failed
        /\ UsesXml(log) =>
              \A i \in ErrorRecords(log) :
                  LET t == Payload(log)[i].id
                  IN  /\ t \in XmlScan(Payload(log)).failed
                      /\ t \notin XmlScan(Payload(log)).skipped => t \in result.failed

\* a record with an error marker: its identifier is failed, nothing is
\* errored
C32_Witness ==
    /\ parsed
    /\ UsesXml(log)
    /\ \E i \in ErrorRecords(log) :
          /\ Payload(log)[i].marks = {"error"}
          /\ status_map[Payload(log)[i].id] = FAILED
          /\ Payload(log)[i].id \in result.failed
    /\ result.errors = {}

\* ---------------------------------------------------------------- C33
EmptyPatch == strip(patch) = ""

PatchWork(e) == e.op \in {"copy_patch", "apply"}

\* the eval script ran to its end in the after-patch phase, in a container
\* in which nothing of the baseline phase happened
PatchedRunInFreshSandbox ==
    \E j \in 1..Len(events) :
        /\ events[j].op = "run_tests" /\ events[j].phase = "after" /\ events[j].outcome = "ok"
        /\ \A k \in 1..Len(events) : events[k].phase = "before" => events[k].h # events[j].h

\* C33: with a patch that is empty or blank, no patch is copied and no
\* apply command is executed, the run is never given up for a patch that
\* does not apply, a result of the after-patch phase comes from the eval
\* script run in a container of its own, and the pair returned after both
\* phases is computed from the two results as for any patch.
C33_EmptyPatchRunsUnpatched ==
    EmptyPatch =>
        /\ \A j \in 1..Len(events) : ~PatchWork(events[j])
        /\ abort.why # "patch_failed"
        /\ rpc \notin {"copy_patch", "apply"}
        /\ after_result # <<>> => PatchedRunInFreshSandbox
        /\ (Returned /\ after_result # <<>>) =>
              /\ ret[1] = sorted((before_result[1].failed \cup before_result[1].errors)
                                    \cap after_result[1].passed)
              /\ ret[2] = sorted(before_result[1].passed \cap after_result[1].passed)

\* a blank patch: both runs completed and the worker recorded labels that
\* are not empty
C33_Witness ==
    /\ patch = "  "
    /\ pc = "recorded"
    /\ after_result # <<>>
    /\ PatchedRunInFreshSandbox
    /\ labels = <<<<"A">>, <<"B">>>>
    /\ \A j \in 1..Len(events) : ~PatchWork(events[j])

\* ---------------------------------------------------------------- C34
\* the call of save_result_to_file for i has returned
SaveReturned(i) == tpc[i] \in {"saved", "finished"}

\* C34: while the output file cannot be loaded, so that every incremental
\* save fails, the calls return all the same and the run goes on (once a
\* pair is stored the run can only fail after its final write); the pair
\* of every call that has returned from its save is in results; and after
\* the final write the file holds for every processed instance one dict
\* with the pair that is in results.
C34_FailedSaveKeepsResult ==
    /\ (mpc = "pool" /\ SaveFails(file)) => RunGoesOn
    /\ \A i \in DatasetIds :
          SaveReturned(i) => (i \in DOMAIN results /\ results[i] = evaluated[i][1])
    /\ (DOMAIN results # {} /\ mpc = "crashed") => updated_dataset # <<>>
    /\ mpc = "summary" =>
          \A i \in Payloads :
              /\ i \in DOMAIN results
              /\ LabelsIn(file, i) = {results[i]}
              /\ Cardinality(RecordsOf(i)) = 1

\* the file could not be loaded: the three saves failed, the final write
\* has put the three pairs in the file
C34_Witness ==
    /\ first_file = CorruptFile
    /\ mpc = "summary"
    /\ Len(dataset) = 3
    /\ results["i1"] = <<<<"A">>, <<"B">>>>
    /\ \A i \in Payloads : LabelsIn(file, i) = {results[i]}

\* ---------------------------------------------------------------- C35
\* C35: when the run did not start on a file that cannot be loaded, the
\* list main is about to write at the end is the list the file holds, left
\* there by the last incremental save.
C35_FinalWriteEqualsLastSave ==
    (mpc = "final_open" /\ ~SaveFails(first_file)) => file = ValidFile(updated_dataset)

\* a run on an unsorted list with a dict of i1 without labels and a labeled
\* dict of i3: the three instances are in the file and in the list to write
C35_Witness ==
    /\ mpc = "final_open"
    /\ first_file = UnsortedFile
    /\ Len(updated_dataset) = 3
    /\ file = ValidFile(updated_dataset)
    /\ file # first_file

\* ---------------------------------------------------------------- C36
\* C36: after the final write of a run every dict of the output file has
\* its labels, and the run does not fail after that write.
C36_SummaryOverLabeledRecords ==
    /\ mpc = "summary" => \A k \in 1..Len(file.recs) : file.recs[k].labels # <<>>
    /\ mpc = "crashed" => updated_dataset = <<>>

====
